---- MODULE Spec2Model ----
(***************************************************************************)
(* Model of collect_files.py: the directory discovery generator            *)
(* (discover_files), the content classifier (looks_binary_bytes), the      *)
(* encoding resolver (try_decode), the sequential ingestion loop           *)
(* (process_files_sequential) and the entry point (main).                  *)
(*                                                                         *)
(* File names are sequences of character codes, paths are sequences of     *)
(* names starting below the filesystem top, file contents and the output   *)
(* sink are sequences of bytes (0..255), decoded text is a sequence of     *)
(* code points.                                                            *)
(***************************************************************************)
EXTENDS Integers, Sequences, FiniteSets, TLC

VARIABLES
    \* ---- the filesystem and the platform (fixed during one call) ----
    symlinks,        \* symlink slot name -> [present, broken, target]
    unreadable,      \* directory inodes whose os.scandir raises
    ino_valid,       \* FALSE: the platform reports st_ino = st_dev = 0
    \* ---- discover_files: arguments ----
    include_hidden, follow_symlinks, max_depth,
    \* ---- discover_files: generator state ----
    pc,              \* "root" | "pop" | "entries" | "done"
    inputs,          \* the roots taken from the inputs iterable so far
    stack,           \* list of frames [path, node, depth]; top is the last
    cur,             \* the frame popped last (current_dir, depth)
    entries,         \* entries of current_dir not yet visited by the for loop
    seen_keys,       \* set of identity keys
    \* ---- discover_files: observation ----
    yielded,         \* the sequence of yields, each with how it was produced
    frames,          \* every frame ever pushed, with how it was produced
    \* ---- looks_binary_bytes / try_decode: one application ----
    cstage,          \* "idle" | "input" | "classified" | "decoded"
    data,            \* the bytes given to the functions
    text,            \* the text the bytes were written from (code points)
    enc,             \* the encoding they were written in ("raw": plain bytes)
    binary,          \* looks_binary_bytes(data), once classified
    decoded,         \* try_decode(data) = [text, enc], once decoded
    \* ---- process_files_sequential ----
    ppc,             \* "idle" | "start" | "loop" | "done"
    file_list,       \* the files: [path, content, fault, at]
    max_size,        \* args.max_size in units of 1/1048576 MB
    idx,             \* position of the for loop in file_list
    summary,         \* the Summary object
    out,             \* the bytes written to out_fh
    ui,              \* the total the progress reporter was advanced by
    handled,         \* per file handled: what the iteration did
    \* ---- main ----
    mpc,             \* "idle" | "start" | "prepare" | "exit"
    args,            \* the Namespace parse_args returns
    warnings,        \* positions of the inputs warned about as missing
    dest0,           \* the destination file before the run: [exists, content]
    dest,            \* the destination file now
    opens,           \* how often the destination was opened for writing
    status,          \* the exit status: None while running
    exit_at,         \* where main ended: "none" | "line 386"
    \* ---- prepare_output_path / safe_open_for_write, called directly ----
    opc,             \* "idle" | "start" | "prepared" | "raised" | "opened" | "failed"
    output,          \* the argument of prepare_output_path: None or a path
    append,          \* the argument of safe_open_for_write
    out_path,        \* the path prepared, then the path opened
    made_dirs,       \* the directories parent.mkdir created
    mode             \* the mode the destination was opened in: "none" | "ab" | "wb"

dvars == <<symlinks, unreadable, ino_valid, include_hidden, follow_symlinks,
           max_depth, pc, inputs, stack, cur, entries, seen_keys, yielded, frames>>
cvars == <<cstage, data, text, enc, binary, decoded>>
pvars == <<ppc, file_list, max_size, idx, summary, out, ui, handled>>
ovars == <<opc, output, append, out_path, made_dirs, mode>>
mvars == <<mpc, args, warnings, dest0, dest, opens, status, exit_at, ovars>>
vars == <<dvars, cvars, pvars, mvars>>

-----------------------------------------------------------------------------
(* Bounds of the model *)

\* roots taken from the inputs iterable in one call
MaxRoots == 2
\* largest max_depth argument tried (besides None)
MaxDepthArg == 1
\* byte sequences up to this length are classified exhaustively
MaxDataLen == 3
\* texts up to this many characters are written, classified and decoded
MaxTextLen == 2
\* length of the file list given to process_files_sequential
MaxFiles == 2

-----------------------------------------------------------------------------
(* Small helpers *)

\* Python's None for an optional integer: the empty sequence; a value v is <<v>>
None == <<>>
Some(v) == <<v>>

Last(s) == s[Len(s)]
Front(s) == SubSeq(s, 1, Len(s) - 1)

\* the hidden marker '.'
Dot == 46

(* names used by the filesystem of the model *)
n_r == <<114>>
n_s == <<115>>
n_a == <<97>>
n_b == <<98>>
n_x == <<120>>
n_y == <<121>>
n_f == <<102>>
n_l == <<108>>
n_k == <<107>>
n_t == <<116>>
n_c == <<99>>
n_h == <<Dot, 104>>
n_e == <<Dot, 101>>
n_gone == <<103>>

-----------------------------------------------------------------------------
(* The filesystem: inodes, hard entries, symlink slots                      *)
(*                                                                         *)
(*   /            inode 1                                                   *)
(*   /r           2     /r/a  10 (file)   /r/.e 10 (hard link, hidden name) *)
(*   /r/x         3     /r/x/b 10 (hard link)   /r/x/l  symlink slot        *)
(*   /s           4                                                         *)
(*   /s/y         5     /s/y/f 12 (file)        /s/y/k  symlink slot        *)
(*   /.h          6                                                         *)
(*   /.h/t        7     /.h/t/c 13 (file)                                   *)

DirNodes == {1, 2, 3, 4, 5, 6, 7}
FileNodes == {10, 12, 13}

Kind(n) == IF n \in DirNodes THEN "dir" ELSE IF n \in FileNodes THEN "file" ELSE "none"

Hard(name, ino) == [name |-> name, ino |-> ino, sym |-> FALSE, broken |-> FALSE, target |-> <<>>]

HardEntries(d) ==
    CASE d = 1 -> {Hard(n_r, 2), Hard(n_s, 4), Hard(n_h, 6)}
      [] d = 2 -> {Hard(n_a, 10), Hard(n_e, 10), Hard(n_x, 3)}
      [] d = 3 -> {Hard(n_b, 10)}
      [] d = 4 -> {Hard(n_y, 5)}
      [] d = 5 -> {Hard(n_f, 12)}
      [] d = 6 -> {Hard(n_t, 7)}
      [] d = 7 -> {Hard(n_c, 13)}
      [] OTHER -> {}

\* where each symlink slot lives: directory inode, name, the link's own inode
SlotDir == [l |-> 3, k |-> 5]
SlotName == [l |-> n_l, k |-> n_k]
SlotIno == [l |-> 20, k |-> 21]
Slots == {"l", "k"}

Absent == [present |-> FALSE, broken |-> FALSE, target |-> <<>>]
Dangling == [present |-> TRUE, broken |-> TRUE, target |-> <<n_gone>>]
LinkTo(p) == [present |-> TRUE, broken |-> FALSE, target |-> p]

SlotChoices(s) ==
    IF s = "l"
    THEN {Absent, Dangling, LinkTo(<<n_r>>), LinkTo(<<n_s, n_y>>), LinkTo(<<n_r, n_a>>)}
    ELSE {Absent, LinkTo(<<n_r, n_x>>)}

SymEntries(d) ==
    {[name |-> SlotName[s], ino |-> SlotIno[s], sym |-> TRUE,
      broken |-> symlinks[s].broken, target |-> symlinks[s].target] :
        s \in {t \in Slots : SlotDir[t] = d /\ symlinks[t].present}}

\* the inode a canonical path (no symlink in it) names, 0 when there is none
RECURSIVE NodeAt(_)
NodeAt(p) ==
    IF p = <<>> THEN 1
    ELSE LET d == NodeAt(Front(p))
             hit == {e \in HardEntries(d) : e.name = Last(p)}
         IN IF hit = {} THEN 0 ELSE (CHOOSE e \in hit : TRUE).ino

\* the canonical path of a directory inode
RECURSIVE CanonDir(_)
CanonDir(d) ==
    IF d = 1 THEN <<>>
    ELSE LET q == CHOOSE q \in DirNodes : \E e \in HardEntries(q) : e.ino = d
             e == CHOOSE e \in HardEntries(q) : e.ino = d
         IN Append(CanonDir(q), e.name)

-----------------------------------------------------------------------------
(* Helpers of the source *)

\* is_hidden(path): path.name.startswith('.') (the os.name == 'nt' branch is
\* not taken on the modelled platform)
is_hidden(path) ==
    /\ path # <<>>
    /\ Len(Last(path)) > 0
    /\ Last(path)[1] = Dot

\* os.scandir(current_dir): the directory's entries
Scandir(d) == HardEntries(d) \cup SymEntries(d)

\* the inode an entry denotes under the follow_symlinks policy (0: none)
EntryNode(e, follow) ==
    IF e.sym /\ follow
    THEN (IF e.broken THEN 0 ELSE NodeAt(e.target))
    ELSE e.ino

\* entry.stat(follow_symlinks=...): None when it raises (dangling link),
\* otherwise st_ino / st_dev as the platform reports them
EntryStat(e, follow) ==
    IF EntryNode(e, follow) = 0 THEN None
    ELSE IF ino_valid THEN Some([st_ino |-> EntryNode(e, follow), st_dev |-> 1])
    ELSE Some([st_ino |-> 0, st_dev |-> 0])

\* str(p.resolve()) for the entry e of directory d: symlinks are resolved
\* whatever the follow_symlinks policy
Resolve(d, e) ==
    IF e.sym
    THEN (IF e.broken THEN CanonDir(d) \o e.target ELSE e.target)
    ELSE Append(CanonDir(d), e.name)

\* the identity key of an entry (lines 166-191)
EntryKey(d, e, follow) ==
    LET st == EntryStat(e, follow)
        use_path_key_fallback ==
            IF st = None THEN TRUE ELSE (st[1].st_ino = 0 /\ st[1].st_dev = 0)
    IN IF use_path_key_fallback
       THEN <<"path", Resolve(d, e)>>
       ELSE <<"inode", st[1].st_ino, st[1].st_dev>>

\* entry.is_file / entry.is_dir (follow_symlinks=...)
entry_is_file(e, follow) == Kind(EntryNode(e, follow)) = "file"
entry_is_dir(e, follow) == Kind(EntryNode(e, follow)) = "dir"

\* (mutation of root_is_file: a hidden name is filtered for file roots too)
root_is_file_Unhidden(root) ==
    Kind(NodeAt(root)) = "file" /\ ~(~include_hidden /\ is_hidden(root))

\* root.is_file(), root.exists() for a root path
root_is_file(root) == Kind(NodeAt(root)) = "file"
root_exists(root) == NodeAt(root) # 0

\* (mutation of HiddenFiltered: the filter is never applied)
HiddenFiltered_Off(path) == FALSE

\* the hidden filter applied to a popped directory and to a child (136, 158)
HiddenFiltered(path) == ~include_hidden /\ is_hidden(path)

\* (mutation of AlreadySeen: the membership test is dropped)
AlreadySeen_Never(key, seen) == FALSE

\* "if key in seen_keys: continue" (193)
AlreadySeen(key, seen) == key \in seen

\* (mutation of Record: the key is not added)
Record_Forgets(key, seen) == seen

\* "seen_keys.add(key)" (197)
Record(key, seen) == seen \cup {key}

\* (mutation of MayDescend: off by one, the depth of the parent is compared)
MayDescend_OffByOne(depth) == max_depth = None \/ depth <= max_depth[1]

\* "max_depth is None or (depth + 1) <= max_depth" (215)
MayDescend(depth) == max_depth = None \/ depth + 1 <= max_depth[1]

-----------------------------------------------------------------------------
(* looks_binary_bytes *)

\* "sample = data[:1024]"
BinaryPrefix == 1024

Min(a, b) == IF a < b THEN a ELSE b

Prefix(bytes, n) == SubSeq(bytes, 1, Min(n, Len(bytes)))

\* text_chars = bytearray({7,8,9,10,12,13,27} | set(range(0x20, 0x100)))
text_chars == {7, 8, 9, 10, 12, 13, 27} \cup (32..255)

\* (mutation of looks_binary_bytes: the null byte test is dropped)
looks_binary_bytes_NoNullTest(bytes) ==
    IF bytes = <<>> THEN FALSE
    ELSE LET sample == Prefix(bytes, BinaryPrefix)
             nontext == Cardinality({i \in DOMAIN sample : sample[i] \notin text_chars})
         IN nontext * 100 > 30 * Len(sample)

\* (mutation of looks_binary_bytes: a ratio of exactly 0.30 is binary too)
looks_binary_bytes_Inclusive(bytes) ==
    IF bytes = <<>> THEN FALSE
    ELSE LET sample == Prefix(bytes, BinaryPrefix)
             nontext == Cardinality({i \in DOMAIN sample : sample[i] \notin text_chars})
             len == IF Len(sample) > 1 THEN Len(sample) ELSE 1
         IN IF \E i \in DOMAIN sample : sample[i] = 0 THEN TRUE
            ELSE nontext * 100 >= 30 * len

\* looks_binary_bytes(data): "ratio > 0.30" with ratio = nontext / max(1, len),
\* compared exactly as nontext * 100 > 30 * len
looks_binary_bytes(bytes) ==
    IF bytes = <<>> THEN FALSE
    ELSE LET sample == Prefix(bytes, BinaryPrefix)
             nontext == Cardinality({i \in DOMAIN sample : sample[i] \notin text_chars})
             len == IF Len(sample) > 1 THEN Len(sample) ELSE 1
         IN IF \E i \in DOMAIN sample : sample[i] = 0 THEN TRUE
            ELSE nontext * 100 > 30 * len

-----------------------------------------------------------------------------
(* The codecs try_decode goes through.  A decoder returns [ok, text]; text *)
(* is a sequence of code points.                                           *)

Bad == [ok |-> FALSE, text |-> <<>>]
Good(t) == [ok |-> TRUE, text |-> t]

IsCont(b) == b >= 128 /\ b <= 191

\* bytes.decode('utf-8'), strict: shortest form only, no surrogates, at most
\* U+10FFFF
RECURSIVE Utf8Dec(_, _, _)
Utf8Dec(b, i, acc) ==
    IF i > Len(b) THEN Good(acc)
    ELSE LET c == b[i]
             has(k) == i + k <= Len(b)
         IN IF c < 128 THEN Utf8Dec(b, i + 1, Append(acc, c))
            ELSE IF c >= 194 /\ c <= 223
            THEN IF has(1) /\ IsCont(b[i + 1])
                 THEN Utf8Dec(b, i + 2, Append(acc, (c - 192) * 64 + (b[i + 1] - 128)))
                 ELSE Bad
            ELSE IF c >= 224 /\ c <= 239
            THEN IF /\ has(2) /\ IsCont(b[i + 1]) /\ IsCont(b[i + 2])
                    /\ (c = 224 => b[i + 1] >= 160)
                    /\ (c = 237 => b[i + 1] <= 159)
                 THEN Utf8Dec(b, i + 3,
                        Append(acc, (c - 224) * 4096 + (b[i + 1] - 128) * 64 + (b[i + 2] - 128)))
                 ELSE Bad
            ELSE IF c >= 240 /\ c <= 244
            THEN IF /\ has(3) /\ IsCont(b[i + 1]) /\ IsCont(b[i + 2]) /\ IsCont(b[i + 3])
                    /\ (c = 240 => b[i + 1] >= 144)
                    /\ (c = 244 => b[i + 1] <= 143)
                 THEN Utf8Dec(b, i + 4,
                        Append(acc, (c - 240) * 262144 + (b[i + 1] - 128) * 4096
                                     + (b[i + 2] - 128) * 64 + (b[i + 3] - 128)))
                 ELSE Bad
            ELSE Bad

DecodeUtf8(b) == Utf8Dec(b, 1, <<>>)

\* 'utf-8-sig': a leading EF BB BF is dropped, then utf-8
DecodeUtf8Sig(b) ==
    IF Len(b) >= 3 /\ SubSeq(b, 1, 3) = <<239, 187, 191>>
    THEN DecodeUtf8(SubSeq(b, 4, Len(b)))
    ELSE DecodeUtf8(b)

\* the 16-bit unit at byte i, little or big endian
Unit(b, i, le) == IF le THEN b[i] + 256 * b[i + 1] ELSE 256 * b[i] + b[i + 1]

IsHighSurr(u) == u >= 55296 /\ u <= 56319
IsLowSurr(u) == u >= 56320 /\ u <= 57343

\* UTF-16 without BOM handling, strict: an odd length is truncated data, a
\* lone surrogate is illegal
RECURSIVE Utf16Dec(_, _, _, _)
Utf16Dec(b, i, le, acc) ==
    IF i > Len(b) THEN Good(acc)
    ELSE IF i + 1 > Len(b) THEN Bad
    ELSE LET u == Unit(b, i, le)
         IN IF IsHighSurr(u)
            THEN IF i + 3 <= Len(b) /\ IsLowSurr(Unit(b, i + 2, le))
                 THEN Utf16Dec(b, i + 4, le,
                        Append(acc, 65536 + (u - 55296) * 1024 + (Unit(b, i + 2, le) - 56320)))
                 ELSE Bad
            ELSE IF IsLowSurr(u) THEN Bad
            ELSE Utf16Dec(b, i + 2, le, Append(acc, u))

DecodeUtf16LE(b) == Utf16Dec(b, 1, TRUE, <<>>)
DecodeUtf16BE(b) == Utf16Dec(b, 1, FALSE, <<>>)

\* 'utf-16': a BOM selects the byte order and is dropped; without one the
\* native order of the platform, little endian, is used
DecodeUtf16(b) ==
    IF Len(b) >= 2 /\ SubSeq(b, 1, 2) = <<255, 254>> THEN Utf16Dec(b, 3, TRUE, <<>>)
    ELSE IF Len(b) >= 2 /\ SubSeq(b, 1, 2) = <<254, 255>> THEN Utf16Dec(b, 3, FALSE, <<>>)
    ELSE Utf16Dec(b, 1, TRUE, <<>>)

\* 'latin-1': every byte is its code point
DecodeLatin1(b) == Good(b)

\* 'cp1252': five bytes are undefined; the other bytes of 0x80..0x9F map to
\* the Windows-1252 characters, every byte outside that range is its code
\* point
Cp1252Undefined == {129, 141, 143, 144, 157}
Cp1252High ==
    128 :> 8364 @@ 130 :> 8218 @@ 131 :> 402 @@ 132 :> 8222
    @@ 133 :> 8230 @@ 134 :> 8224 @@ 135 :> 8225 @@ 136 :> 710
    @@ 137 :> 8240 @@ 138 :> 352 @@ 139 :> 8249 @@ 140 :> 338
    @@ 142 :> 381 @@ 145 :> 8216 @@ 146 :> 8217 @@ 147 :> 8220
    @@ 148 :> 8221 @@ 149 :> 8226 @@ 150 :> 8211 @@ 151 :> 8212
    @@ 152 :> 732 @@ 153 :> 8482 @@ 154 :> 353 @@ 155 :> 8250
    @@ 156 :> 339 @@ 158 :> 382 @@ 159 :> 376
Cp1252Map(c) == IF c \in DOMAIN Cp1252High THEN Cp1252High[c] ELSE c
DecodeCp1252(b) ==
    IF \E i \in DOMAIN b : b[i] \in Cp1252Undefined THEN Bad
    ELSE Good([i \in DOMAIN b |-> Cp1252Map(b[i])])

\* COMMON_ENCODINGS, in order
COMMON_ENCODINGS ==
    <<"utf-8", "utf-8-sig", "utf-16", "utf-16-le", "utf-16-be", "latin-1", "cp1252">>

\* data.decode(enc)
Decode(e, b) ==
    CASE e = "utf-8" -> DecodeUtf8(b)
      [] e = "utf-8-sig" -> DecodeUtf8Sig(b)
      [] e = "utf-16" -> DecodeUtf16(b)
      [] e = "utf-16-le" -> DecodeUtf16LE(b)
      [] e = "utf-16-be" -> DecodeUtf16BE(b)
      [] e = "latin-1" -> DecodeLatin1(b)
      [] e = "cp1252" -> DecodeCp1252(b)

\* the continuation bytes a lead byte asks for (0: not a lead byte)
Utf8Need(c) ==
    IF c >= 194 /\ c <= 223 THEN 1
    ELSE IF c >= 224 /\ c <= 239 THEN 2
    ELSE IF c >= 240 /\ c <= 244 THEN 3
    ELSE 0

\* the byte at place k after the lead byte c may continue the sequence
Utf8ContOk(c, k, x) ==
    /\ IsCont(x)
    /\ k = 1 =>
         /\ (c = 224 => x >= 160)
         /\ (c = 237 => x <= 159)
         /\ (c = 240 => x >= 144)
         /\ (c = 244 => x <= 143)

\* how many of the bytes after place i continue the sequence led by b[i]
RECURSIVE Utf8Run(_, _, _)
Utf8Run(b, i, k) ==
    IF k < Utf8Need(b[i]) /\ i + k + 1 <= Len(b) /\ Utf8ContOk(b[i], k + 1, b[i + k + 1])
    THEN Utf8Run(b, i, k + 1)
    ELSE k

\* data.decode('utf-8', errors='replace'): a well-formed sequence is
\* decoded; an ill-formed one gives one U+FFFD for the lead byte together
\* with the continuation bytes that were acceptable after it
RECURSIVE Utf8Rep(_, _, _)
Utf8Rep(b, i, acc) ==
    IF i > Len(b) THEN acc
    ELSE LET c == b[i]
             k == Utf8Run(b, i, 0)
         IN IF c < 128 THEN Utf8Rep(b, i + 1, Append(acc, c))
            ELSE IF Utf8Need(c) > 0 /\ k = Utf8Need(c)
            THEN Utf8Rep(b, i + k + 1, acc \o DecodeUtf8(SubSeq(b, i, i + k)).text)
            ELSE Utf8Rep(b, i + k + 1, Append(acc, 65533))

\* the fallback of try_decode (103-104); reached only when every encoding
\* of the list failed
Utf8Replace(b) == Utf8Rep(b, 1, <<>>)

\* try_decode(data): the first encoding of the list that decodes
RECURSIVE TryFrom(_, _)
TryFrom(k, b) ==
    IF k > Len(COMMON_ENCODINGS)
    THEN [text |-> Utf8Replace(b), enc |-> "utf-8-replace"]
    ELSE IF Decode(COMMON_ENCODINGS[k], b).ok
    THEN [text |-> Decode(COMMON_ENCODINGS[k], b).text, enc |-> COMMON_ENCODINGS[k]]
    ELSE TryFrom(k + 1, b)

try_decode(b) == TryFrom(1, b)

\* one code point as UTF-8
Utf8Char(c) ==
    IF c < 128 THEN <<c>>
    ELSE IF c < 2048 THEN <<192 + (c \div 64), 128 + (c % 64)>>
    ELSE IF c < 65536
    THEN <<224 + (c \div 4096), 128 + ((c \div 64) % 64), 128 + (c % 64)>>
    ELSE <<240 + (c \div 262144), 128 + ((c \div 4096) % 64),
           128 + ((c \div 64) % 64), 128 + (c % 64)>>

\* txt.encode("utf-8")
RECURSIVE EncodeUtf8(_)
EncodeUtf8(t) == IF t = <<>> THEN <<>> ELSE Utf8Char(t[1]) \o EncodeUtf8(Tail(t))

\* text.encode('utf-16-le') for code points of the basic plane
RECURSIVE EncodeUtf16LE(_)
EncodeUtf16LE(t) ==
    IF t = <<>> THEN <<>> ELSE <<t[1] % 256, t[1] \div 256>> \o EncodeUtf16LE(Tail(t))

\* text.encode('latin-1') for code points below 256
EncodeLatin1(t) == t

\* how a file in one of the three encodings of the round-trip property is
\* written
Encode(e, t) ==
    CASE e = "utf-8" -> EncodeUtf8(t)
      [] e = "utf-16-le" -> EncodeUtf16LE(t)
      [] e = "latin-1" -> EncodeLatin1(t)

-----------------------------------------------------------------------------
(* discover_files *)

NoFrame == [path |-> <<>>, node |-> 0, depth |-> 0]

\* the roots the inputs iterable may produce
RootCands ==
    {<<n_r>>, <<n_s>>, <<n_r, n_a>>, <<n_r, n_e>>, <<n_h, n_t>>, <<n_gone>>}

\* the key an enumerated entry naming a root path produces (observation only)
RootKey(root) ==
    IF ino_valid THEN <<"inode", NodeAt(root), 1>> ELSE <<"path", root>>

\* where the generator continues after a directory has been dealt with
Cont(stk, ents) ==
    IF ents # {} THEN "entries" ELSE IF stk # <<>> THEN "pop" ELSE "root"

InitDiscover ==
    /\ symlinks \in [Slots -> UNION {SlotChoices(s) : s \in Slots}]
    /\ \A s \in Slots : symlinks[s] \in SlotChoices(s)
    /\ unreadable \in {{}, {5}}
    /\ ino_valid \in BOOLEAN
    /\ include_hidden \in BOOLEAN
    /\ follow_symlinks \in BOOLEAN
    /\ max_depth \in {None} \cup {Some(d) : d \in 0..MaxDepthArg}
    /\ pc = "root"
    /\ inputs = <<>>
    /\ stack = <<>>
    /\ cur = NoFrame
    /\ entries = {}
    /\ seen_keys = {}
    /\ yielded = <<>>
    /\ frames = {}

\* "for root in inputs": one root; a regular file is yielded directly, a
\* missing root is skipped, anything else starts a traversal (121-132)
NextRoot(root) ==
    /\ pc = "root"
    /\ Len(inputs) < MaxRoots
    /\ inputs' = Append(inputs, root)
    /\ IF root_is_file(root)
       THEN /\ yielded' = Append(yielded,
                    [path |-> root, node |-> NodeAt(root), key |-> RootKey(root),
                     root |-> TRUE, dup |-> RootKey(root) \in seen_keys,
                     base |-> root])
            /\ UNCHANGED <<pc, stack, frames>>
       ELSE IF ~root_exists(root)
       THEN UNCHANGED <<pc, stack, frames, yielded>>
       ELSE /\ stack' = <<[path |-> root, node |-> NodeAt(root), depth |-> 0]>>
            /\ frames' = frames \cup
                    {[path |-> root, depth |-> 0, base |-> root, n |-> Len(inputs) + 1,
                      key |-> RootKey(root), root |-> TRUE,
                      dup |-> RootKey(root) \in seen_keys]}
            /\ pc' = "pop"
            /\ UNCHANGED yielded
    /\ UNCHANGED <<cur, entries, seen_keys>>

\* the inputs iterable is exhausted: the generator returns (220)
Finish ==
    /\ pc = "root"
    /\ pc' = "done"
    /\ UNCHANGED <<inputs, stack, cur, entries, seen_keys, yielded, frames>>

\* "current_dir, depth = stack.pop()", the hidden check of the directory and
\* os.scandir (134-149)
PopFrame ==
    /\ pc = "pop"
    /\ LET f == Last(stack)
           rest == Front(stack)
       IN /\ stack' = rest
          /\ IF HiddenFiltered(f.path) \/ f.node \in unreadable
             THEN /\ entries' = {}
                  /\ cur' = NoFrame
                  /\ pc' = Cont(rest, {})
             ELSE /\ entries' = Scandir(f.node)
                  /\ cur' = IF Scandir(f.node) = {} THEN NoFrame ELSE f
                  /\ pc' = Cont(rest, Scandir(f.node))
    /\ UNCHANGED <<inputs, seen_keys, yielded, frames>>

\* one iteration of "for entry in entries" (151-219)
VisitEntry(e) ==
    /\ pc = "entries"
    /\ e \in entries
    /\ LET p == Append(cur.path, e.name)
           key == EntryKey(cur.node, e, follow_symlinks)
           left == entries \ {e}
           is_f == entry_is_file(e, follow_symlinks)
           is_d == entry_is_dir(e, follow_symlinks)
           base == Last(inputs)
       IN /\ entries' = left
          /\ IF HiddenFiltered(p) \/ AlreadySeen(key, seen_keys)
             THEN UNCHANGED <<seen_keys, yielded, stack, frames>>
             ELSE /\ seen_keys' = Record(key, seen_keys)
                  /\ IF is_f
                     THEN /\ yielded' = Append(yielded,
                                [path |-> p, node |-> EntryNode(e, follow_symlinks),
                                 key |-> key, root |-> FALSE,
                                 dup |-> key \in seen_keys, base |-> base])
                          /\ UNCHANGED <<stack, frames>>
                     ELSE IF is_d /\ MayDescend(cur.depth)
                     THEN /\ stack' = Append(stack,
                                [path |-> p, node |-> EntryNode(e, follow_symlinks),
                                 depth |-> cur.depth + 1])
                          /\ frames' = frames \cup
                                {[path |-> p, depth |-> cur.depth + 1, base |-> base,
                                  n |-> Len(inputs), key |-> key, root |-> FALSE,
                                  dup |-> key \in seen_keys]}
                          /\ UNCHANGED yielded
                     ELSE UNCHANGED <<yielded, stack, frames>>
          /\ cur' = IF left = {} THEN NoFrame ELSE cur
          /\ pc' = Cont(stack', left)
    /\ UNCHANGED inputs

Config == <<symlinks, unreadable, ino_valid, include_hidden, follow_symlinks, max_depth>>

\* discover_files is not running
IdleDiscover ==
    /\ symlinks = [s \in Slots |-> Absent]
    /\ unreadable = {}
    /\ ino_valid = TRUE
    /\ include_hidden = FALSE
    /\ follow_symlinks = FALSE
    /\ max_depth = None
    /\ pc = "idle"
    /\ inputs = <<>>
    /\ stack = <<>>
    /\ cur = NoFrame
    /\ entries = {}
    /\ seen_keys = {}
    /\ yielded = <<>>
    /\ frames = {}

\* no byte sequence is being classified or decoded
IdleCodec ==
    /\ cstage = "idle"
    /\ data = <<>>
    /\ text = <<>>
    /\ enc = "raw"
    /\ binary = FALSE
    /\ decoded = [text |-> <<>>, enc |-> "unknown"]

\* process_files_sequential is not running
IdleProcess ==
    /\ ppc = "idle"
    /\ file_list = <<>>
    /\ max_size = 0
    /\ idx = 0
    /\ summary = [total_files |-> 0, processed |-> 0, skipped_binary |-> 0,
                  skipped_large |-> 0, errors |-> 0]
    /\ out = <<>>
    /\ ui = 0
    /\ handled = <<>>

\* the Namespace build_argparser produces (223-236): one attribute per
\* add_argument, named by its dest; "-o/--outputs" is stored as "outputs"
Namespace(input, outputs, include_hidden_, append_, debug_) ==
    [input |-> input, outputs |-> outputs, scale |-> None,
     include_hidden |-> include_hidden_, follow_symlinks |-> FALSE,
     max_size |-> 200, append |-> append_, encoding_report |-> FALSE,
     workers |-> 1, verbose |-> FALSE, debug_discovery |-> debug_]

\* the output helpers are not being called
IdleOutput ==
    /\ opc = "idle"
    /\ output = None
    /\ append = FALSE
    /\ out_path = <<>>
    /\ made_dirs = {}
    /\ mode = "none"

\* main is not running
IdleMain ==
    /\ IdleOutput
    /\ mpc = "idle"
    /\ args = Namespace(<<>>, None, FALSE, FALSE, FALSE)
    /\ warnings = {}
    /\ dest0 = [exists |-> FALSE, content |-> <<>>]
    /\ dest = [exists |-> FALSE, content |-> <<>>]
    /\ opens = 0
    /\ status = None
    /\ exit_at = "none"

(* One call of discover_files *)

Init == InitDiscover /\ IdleCodec /\ IdleProcess /\ IdleMain

Next ==
    \/ \E root \in RootCands : NextRoot(root) /\ UNCHANGED <<Config, cvars, pvars, mvars>>
    \/ Finish /\ UNCHANGED <<Config, cvars, pvars, mvars>>
    \/ PopFrame /\ UNCHANGED <<Config, cvars, pvars, mvars>>
    \/ \E e \in entries : VisitEntry(e) /\ UNCHANGED <<Config, cvars, pvars, mvars>>

Spec == Init /\ [][Next]_vars

-----------------------------------------------------------------------------
(* One application of looks_binary_bytes to a byte sequence *)

\* byte values the inputs are made of: null, a control byte outside the
\* allowed set, bell, tab, a letter, DEL, a high byte
ByteSamples == {0, 1, 7, 9, 65, 127, 200}

Run(n, b) == [i \in 1..n |-> b]

RECURSIVE SeqsUpTo(_, _)
SeqsUpTo(S, n) ==
    IF n = 0 THEN {<<>>}
    ELSE LET shorter == SeqsUpTo(S, n - 1)
         IN shorter \cup {Append(q, x) : q \in {r \in shorter : Len(r) = n - 1}, x \in S}

\* every short sequence, and two runs of one byte each around the 1024-byte
\* prefix and the 0.30 ratio
ClassifyInputs ==
    SeqsUpTo({0, 1, 65}, MaxDataLen)
    \cup {Run(n1, b1) \o Run(n2, b2) :
            n1 \in {3, 4, 300, 301, 307, 308, 1023, 1024},
            b1 \in ByteSamples,
            n2 \in {1, 6, 7, 700, 716, 717},
            b2 \in ByteSamples}

InitClassify ==
    /\ IdleDiscover /\ IdleProcess /\ IdleMain
    /\ cstage = "input"
    /\ data \in ClassifyInputs
    /\ text = <<>>
    /\ enc = "raw"
    /\ binary = FALSE
    /\ decoded = [text |-> <<>>, enc |-> "unknown"]

\* looks_binary_bytes(sample)
Classify ==
    /\ cstage = "input"
    /\ binary' = looks_binary_bytes(data)
    /\ cstage' = "classified"
    /\ UNCHANGED <<data, text, enc, decoded>>

NextClassify == Classify /\ UNCHANGED <<dvars, pvars, mvars>>

SpecClassify == InitClassify /\ [][NextClassify]_vars

-----------------------------------------------------------------------------
(* A text written in one encoding, classified and decoded as the ingestion *)
(* loop does with a file that fits its first read                          *)

\* 'A', newline, e-acute, y-diaeresis, the euro sign, a CJK character
Alphabet == {65, 10, 233, 255, 8364, 20013}

Representable(e, t) == e = "latin-1" => \A i \in DOMAIN t : t[i] < 256

InitCodec ==
    /\ IdleDiscover /\ IdleProcess /\ IdleMain
    /\ cstage = "input"
    /\ text \in SeqsUpTo(Alphabet, MaxTextLen)
    /\ enc \in {"utf-8", "utf-16-le", "latin-1"}
    /\ Representable(enc, text)
    /\ data = Encode(enc, text)
    /\ binary = FALSE
    /\ decoded = [text |-> <<>>, enc |-> "unknown"]

\* "if looks_binary_bytes(sample): ... continue": the file is skipped
SkipBinary ==
    /\ cstage = "classified"
    /\ binary
    /\ cstage' = "skipped"
    /\ UNCHANGED <<data, text, enc, binary, decoded>>

\* "if sample: txt, enc = try_decode(sample); encoding_used = enc" (349-351):
\* an empty sample is not decoded and encoding_used stays "unknown"
DecodeSample ==
    /\ cstage = "classified"
    /\ ~binary
    /\ decoded' = IF data # <<>> THEN try_decode(data)
                  ELSE [text |-> <<>>, enc |-> "unknown"]
    /\ cstage' = "decoded"
    /\ UNCHANGED <<data, text, enc, binary>>

NextCodec ==
    \/ Classify /\ UNCHANGED <<dvars, pvars, mvars>>
    \/ SkipBinary /\ UNCHANGED <<dvars, pvars, mvars>>
    \/ DecodeSample /\ UNCHANGED <<dvars, pvars, mvars>>

SpecCodec == InitCodec /\ [][NextCodec]_vars

-----------------------------------------------------------------------------
(* process_files_sequential *)

\* "sample = r.read(8192)"
SampleSize == 8192
\* "chunk = r.read(65536)"
ChunkSize == 65536
\* "args.max_size * 1024 * 1024"
KiB == 1024
\* the unit max_size is counted in: args.max_size = max_size / MiB megabytes
MiB == 1048576

\* what goes wrong with a file: nothing; path.stat() raises; the first
\* open/read raises; the second open raises; a read of the second handle
\* raises (the at-th); an out_fh.write for the file raises (the at-th)
Faults == {"none", "stat", "sample", "reopen", "stream", "write"}

\* file contents: empty, "hi", "hello", the bytes 00 01 02, Latin-1 e-acute
Contents == {<<>>, <<104, 105>>, <<104, 101, 108, 108, 111>>, <<0, 1, 2>>, <<233>>}

\* str(path).encode("utf-8") of the i-th file: "/a", "/b", ...
PathOf(i) == <<47, 96 + i>>

\* header = b"\n\n----\n" + str(path).encode("utf-8", errors="replace") + b"\n"
Header(path) == <<10, 10, 45, 45, 45, 45, 10>> \o path \o <<10>>

\* max_size_bytes = int(args.max_size * 1024 * 1024) if args.max_size else None
max_size_bytes ==
    IF max_size # 0 THEN Some((max_size * KiB * KiB) \div MiB) ELSE None

\* st.st_size, or -1 when path.stat() raises
StatSize(f) == IF f.fault = "stat" THEN -1 ELSE Len(f.content)

\* (mutation of TooLarge: a file of exactly the maximum is skipped too)
TooLarge_Inclusive(fsize) ==
    max_size_bytes # None /\ fsize >= 0 /\ fsize >= max_size_bytes[1]

\* "max_size_bytes is not None and fsize >= 0 and fsize > max_size_bytes"
TooLarge(fsize) ==
    max_size_bytes # None /\ fsize >= 0 /\ fsize > max_size_bytes[1]

\* the successive results of r.read(n) on a handle positioned at the start
\* of bytes, up to the empty one
RECURSIVE ReadAll(_, _)
ReadAll(bytes, n) ==
    IF bytes = <<>> THEN <<>>
    ELSE <<Prefix(bytes, n)>> \o ReadAll(SubSeq(bytes, Min(n, Len(bytes)) + 1, Len(bytes)), n)

\* "txt, enc = try_decode(chunk); out_fh.write(txt.encode("utf-8"))"
Reencode(bytes) == EncodeUtf8(try_decode(bytes).text)

RECURSIVE ReencodeAll(_)
ReencodeAll(chunks) ==
    IF chunks = <<>> THEN <<>> ELSE Reencode(chunks[1]) \o ReencodeAll(Tail(chunks))

\* the chunks the second handle returns, "chunk = r.read(65536)" from
\* offset 0 until the empty read that ends the loop (353-356)
Chunks(content) == ReadAll(content, ChunkSize)

\* the r.read calls made on the second handle: one for each chunk and the
\* last one, which returns nothing
NumReads(content) == Len(Chunks(content)) + 1

RECURSIVE ReencodeEach(_)
ReencodeEach(chunks) ==
    IF chunks = <<>> THEN <<>> ELSE <<Reencode(chunks[1])>> \o ReencodeEach(Tail(chunks))

\* the successive arguments of out_fh.write for one file handled as text:
\* the header (345), the sample when it is not empty (349-352), then every
\* chunk as soon as it is read (357-359)
Writes(path, content, sample) ==
    <<Header(path)>>
        \o (IF sample # <<>> THEN <<Reencode(sample)>> ELSE <<>>)
        \o ReencodeEach(Chunks(content))

RECURSIVE Joined(_)
Joined(parts) == IF parts = <<>> THEN <<>> ELSE parts[1] \o Joined(Tail(parts))

\* what the second "with open(path, "rb") as r" block writes: the sample
\* read before, then every chunk the new handle returns (lines 348-359)
StreamWrites(content, sample) ==
    (IF sample # <<>> THEN Reencode(sample) ELSE <<>>)
        \o ReencodeAll(Chunks(content))

\* the same block when the k-th read of the new handle raises: the sample
\* and the k - 1 chunks read and written before
StreamWritesCut(content, sample, k) ==
    (IF sample # <<>> THEN Reencode(sample) ELSE <<>>)
        \o ReencodeAll(Prefix(Chunks(content), k - 1))

\* (mutation of Bump: a file skipped as binary is counted as an error too)
Bump_BinaryAlsoError(rec, field) ==
    IF field = "skipped_binary"
    THEN [rec EXCEPT !.skipped_binary = @ + 1, !.errors = @ + 1]
    ELSE [rec EXCEPT ![field] = @ + 1]

\* "summary.<counter> += 1"
Bump(rec, field) == [rec EXCEPT ![field] = @ + 1]

\* the largest number of a set of numbers
Largest(S) == CHOOSE m \in S : \A x \in S : x <= m

\* the reads of the second handle and the writes to the sink a failure can
\* hit: every one a file of Contents gets to
StreamAts == 1..Largest({NumReads(c) : c \in Contents})
WriteAts == 1..Largest({Len(Writes(<<>>, c, Prefix(c, SampleSize))) : c \in Contents})

\* the failures injected: which call raises, and for a read of the second
\* handle or a write to the sink, which one
FaultCases ==
    {[fault |-> k, at |-> 1] : k \in {"none", "stat", "sample", "reopen"}}
        \cup {[fault |-> "stream", at |-> a] : a \in StreamAts}
        \cup {[fault |-> "write", at |-> a] : a \in WriteAts}

InitProcess ==
    /\ IdleDiscover /\ IdleCodec /\ IdleMain
    /\ ppc = "start"
    /\ \E n \in 1..MaxFiles :
         \E cs \in [1..n -> Contents], fs \in [1..n -> FaultCases] :
            file_list = [i \in 1..n |->
                            [path |-> PathOf(i), content |-> cs[i],
                             fault |-> fs[i].fault, at |-> fs[i].at]]
    /\ max_size \in {0, 2}
    /\ idx = 0
    /\ summary = [total_files |-> 0, processed |-> 0, skipped_binary |-> 0,
                  skipped_large |-> 0, errors |-> 0]
    /\ out = <<>>
    /\ ui = 0
    /\ handled = <<>>

\* lines 310-312: the limit is computed and every file is counted
Begin ==
    /\ ppc = "start"
    /\ summary' = [summary EXCEPT !.total_files = @ + Len(file_list)]
    /\ idx' = 1
    /\ ppc' = "loop"
    /\ UNCHANGED <<file_list, max_size, out, ui, handled>>

\* what one iteration of the second for loop does with file f (313-369):
\* the counter it increments, the bytes it writes, how often it opens the
\* file and by how much it advances the progress reporter.  A write that
\* raises adds nothing to the sink; a read or write the handling does not
\* get to cannot fail
Iteration(f) ==
    LET sample == Prefix(f.content, SampleSize)
        writes == Writes(f.path, f.content, sample)
    IN IF TooLarge(StatSize(f))
       THEN [counter |-> "skipped_large", bytes |-> <<>>, opens |-> 0, advance |-> 2]
       ELSE IF f.fault = "sample"
       THEN [counter |-> "errors", bytes |-> <<>>, opens |-> 1, advance |-> 2]
       ELSE IF looks_binary_bytes(sample)
       THEN [counter |-> "skipped_binary", bytes |-> <<>>, opens |-> 1, advance |-> 2]
       ELSE IF f.fault = "write" /\ f.at <= Len(writes)
       THEN [counter |-> "errors", bytes |-> Joined(Prefix(writes, f.at - 1)),
             opens |-> IF f.at = 1 THEN 1 ELSE 2, advance |-> 1]
       ELSE IF f.fault = "reopen"
       THEN [counter |-> "errors", bytes |-> Header(f.path), opens |-> 2, advance |-> 1]
       ELSE IF f.fault = "stream" /\ f.at <= NumReads(f.content)
       THEN [counter |-> "errors",
             bytes |-> Header(f.path) \o StreamWritesCut(f.content, sample, f.at),
             opens |-> 2, advance |-> 1]
       ELSE [counter |-> "processed",
             bytes |-> Header(f.path) \o StreamWrites(f.content, sample),
             opens |-> 2, advance |-> 1]

\* (mutation of NextIndex: an exception of one file ends the whole loop)
NextIndex_AbortOnError(it, i) ==
    IF it.counter = "errors" THEN Len(file_list) + 1 ELSE i + 1

\* where the for loop goes after an iteration: every exception is caught
\* inside the loop body (332-335, 364-367), so always to the next file
NextIndex(it, i) == i + 1

\* one iteration of "for path in file_list" (313-369)
HandleFile ==
    /\ ppc = "loop"
    /\ idx <= Len(file_list)
    /\ LET f == file_list[idx]
           it == Iteration(f)
       IN /\ summary' = Bump(summary, it.counter)
          /\ out' = out \o it.bytes
          /\ ui' = ui + it.advance
          /\ handled' = Append(handled,
                [file |-> idx, counter |-> it.counter, bytes |-> it.bytes,
                 opens |-> it.opens, advance |-> it.advance,
                 before |-> summary, after |-> Bump(summary, it.counter)])
    /\ idx' = NextIndex(Iteration(file_list[idx]), idx)
    /\ UNCHANGED <<ppc, file_list, max_size>>

\* the for loop is exhausted: the function returns
Return ==
    /\ ppc = "loop"
    /\ idx > Len(file_list)
    /\ ppc' = "done"
    /\ UNCHANGED <<file_list, max_size, idx, summary, out, ui, handled>>

NextProcess ==
    \/ Begin /\ UNCHANGED <<dvars, cvars, mvars>>
    \/ HandleFile /\ UNCHANGED <<dvars, cvars, mvars>>
    \/ Return /\ UNCHANGED <<dvars, cvars, mvars>>

SpecProcess == InitProcess /\ [][NextProcess]_vars

\* the generator is run to exhaustion by its consumer (gather_file_list's for
\* loop), so a step that can be taken is taken
FairSpec == Spec /\ WF_vars(Next)

-----------------------------------------------------------------------------
(* main, up to the statement no run gets past: the arguments are parsed,   *)
(* the inputs resolved and checked, and args.output is read (378-386)      *)

\* names the destination argument uses: "o" (a file), "n" (a missing directory)
n_o == <<111>>
n_new == <<110>>

\* the destination arguments tried: none; the directories /s and /r; the
\* files /s/y/f and /r/a; the new files /o and /s/o; /n/o and /n/n/o below
\* missing directories; /r/a/o below a regular file; /.h/t/c and /.h/o in
\* a hidden directory; /s/y/o two levels down; /r/a/n/o, /r/a/n/n/o and
\* /.h/t/c/n/o with a missing parent below a regular file
OutputCands ==
    {None, Some(<<n_s>>), Some(<<n_r>>), Some(<<n_s, n_y, n_f>>), Some(<<n_r, n_a>>),
     Some(<<n_o>>), Some(<<n_s, n_o>>), Some(<<n_new, n_o>>),
     Some(<<n_h, n_t, n_c>>), Some(<<n_h, n_o>>), Some(<<n_s, n_y, n_o>>),
     Some(<<n_new, n_new, n_o>>), Some(<<n_r, n_a, n_o>>),
     Some(<<n_r, n_a, n_new, n_o>>), Some(<<n_r, n_a, n_new, n_new, n_o>>),
     Some(<<n_h, n_t, n_c, n_new, n_o>>)}

\* the positional arguments tried (nargs="+": at least one)
InputLists == UNION {[1..n -> RootCands] : n \in 1..MaxRoots}

\* what the files of the filesystem hold: "hi", "hello", the bytes 00 01 02
NodeContent(n) ==
    CASE n = 10 -> <<104, 105>>
      [] n = 12 -> <<104, 101, 108, 108, 111>>
      [] n = 13 -> <<0, 1, 2>>
      [] OTHER -> <<>>

\* what an earlier run left in /o: "old"
OldOutput == <<111, 108, 100>>

Missing == [exists |-> FALSE, content |-> <<>>]

\* the file the destination argument names, before the run: a file of the
\* filesystem, or in an existing directory a file an earlier run left or no
\* file
DestChoices(o) ==
    IF o = None THEN {Missing}
    ELSE IF Kind(NodeAt(o[1])) = "file"
    THEN {[exists |-> TRUE, content |-> NodeContent(NodeAt(o[1]))]}
    ELSE IF NodeAt(o[1]) = 0 /\ Kind(NodeAt(Front(o[1]))) = "dir"
    THEN {Missing, [exists |-> TRUE, content |-> OldOutput]}
    ELSE {Missing}

\* attribute access on the Namespace succeeds for the names it holds;
\* any other name raises AttributeError
HasAttr(ns, name) == name \in DOMAIN ns

InitMain ==
    /\ IdleDiscover /\ IdleCodec /\ IdleProcess /\ IdleOutput
    /\ mpc = "start"
    /\ \E input \in InputLists, outputs \in OutputCands, h, a, d \in BOOLEAN :
         /\ args = Namespace(input, outputs, h, a, d)
         /\ dest0 \in DestChoices(outputs)
    /\ warnings = {}
    /\ dest = dest0
    /\ opens = 0
    /\ status = None
    /\ exit_at = "none"

\* lines 381-384: the inputs are resolved and the missing ones warned about
ResolveInputs ==
    /\ mpc = "start"
    /\ warnings' = {i \in DOMAIN args.input : ~root_exists(args.input[i])}
    /\ mpc' = "prepare"
    /\ UNCHANGED <<args, dest0, dest, opens, status, exit_at, ovars>>

\* line 386: "prepare_output_path(args.output)" evaluates args.output first;
\* the Namespace has no such attribute (the option is stored as "outputs"),
\* so AttributeError is raised before prepare_output_path is called, nothing
\* catches it, and the interpreter ends the run with a traceback and status
\* 1.  No statement of main after this one is executed by any run.
ReadOutputArg ==
    /\ mpc = "prepare"
    /\ ~HasAttr(args, "output")
    /\ mpc' = "exit"
    /\ status' = Some(1)
    /\ exit_at' = "line 386"
    /\ UNCHANGED <<args, warnings, dest0, dest, opens, ovars>>

NextMain ==
    \/ ResolveInputs /\ UNCHANGED <<dvars, cvars, pvars>>
    \/ ReadOutputArg /\ UNCHANGED <<dvars, cvars, pvars>>

SpecMain == InitMain /\ [][NextMain]_vars

-----------------------------------------------------------------------------
(* prepare_output_path and safe_open_for_write called directly (main does  *)
(* not reach its calls of them): a destination is prepared and opened, or  *)
(* a path is opened as it was given                                        *)

\* time.strftime("%Y%m%d_%H%M%S") at one reading of the clock:
\* "20260101_000000"
StampCompact == <<50, 48, 50, 54, 48, 49, 48, 49, 95, 48, 48, 48, 48, 48, 48>>

\* f"collected_files_{ts}.txt"
n_ts ==
    <<99, 111, 108, 108, 101, 99, 116, 101, 100, 95, 102, 105, 108, 101, 115, 95>>
        \o StampCompact \o <<46, 116, 120, 116>>

\* Path.cwd(): the top directory
Cwd == <<>>

\* "parent.mkdir(parents=True, exist_ok=True)" (288) raises: the parent is
\* missing ("not parent.exists()", 287) and lies below a regular file, so no
\* directory can be made on the way to it (NotADirectoryError)
MkdirRaises(o) ==
    /\ o # None
    /\ Kind(NodeAt(o[1])) # "dir"
    /\ NodeAt(Front(o[1])) = 0
    /\ \E j \in 1..(Len(o[1]) - 1) : Kind(NodeAt(SubSeq(o[1], 1, j))) = "file"

\* prepare_output_path(output) (279-292): the path returned, or the
\* exception of mkdir passed on (path: none)
prepare_output_path(o) ==
    IF o = None THEN [raises |-> FALSE, path |-> Some(Append(Cwd, n_ts))]
    ELSE IF Kind(NodeAt(o[1])) = "dir"
    THEN [raises |-> FALSE, path |-> Some(Append(o[1], n_ts))]
    ELSE IF MkdirRaises(o) THEN [raises |-> TRUE, path |-> None]
    ELSE [raises |-> FALSE, path |-> Some(o[1])]

\* "if parent and not parent.exists(): parent.mkdir(parents=True, ...)": the
\* directories created, the missing ones on the way to the parent; none
\* when mkdir raises
MissingParents(o) ==
    IF o = None \/ Kind(NodeAt(o[1])) = "dir" \/ MkdirRaises(o) THEN {}
    ELSE {SubSeq(o[1], 1, k) : k \in {j \in 1..(Len(o[1]) - 1) : NodeAt(SubSeq(o[1], 1, j)) = 0}}

\* open(path, mode) for writing succeeds: the path is not a directory and
\* its parent directory exists
CanOpen(path) ==
    /\ Kind(NodeAt(path)) # "dir"
    /\ Kind(NodeAt(Front(path))) = "dir" \/ Front(path) \in made_dirs

InitOutput ==
    /\ IdleDiscover /\ IdleCodec /\ IdleProcess
    /\ mpc = "idle"
    /\ args = Namespace(<<>>, None, FALSE, FALSE, FALSE)
    /\ warnings = {}
    /\ status = None
    /\ exit_at = "none"
    /\ opc = "start"
    /\ output \in OutputCands
    /\ append \in BOOLEAN
    /\ out_path = <<>>
    /\ made_dirs = {}
    /\ mode = "none"
    /\ dest0 \in DestChoices(output)
    /\ dest = dest0
    /\ opens = 0

\* prepare_output_path(output) (279-292): the path is returned, or the
\* exception of mkdir leaves the caller without a path
PrepareOutputPath ==
    /\ opc = "start"
    /\ LET r == prepare_output_path(output)
       IN IF r.raises
          THEN /\ opc' = "raised"
               /\ UNCHANGED out_path
          ELSE /\ opc' = "prepared"
               /\ out_path' = r.path[1]
    /\ made_dirs' = MissingParents(output)
    /\ UNCHANGED <<output, append, mode, dest0, dest, opens>>

\* safe_open_for_write(path, append) (294-300) on the prepared path, or on
\* the path as given: "ab" keeps and "wb" empties what the file holds, both
\* create a missing file; when open raises, RuntimeError is raised
SafeOpenForWrite ==
    /\ opc \in {"start", "prepared"}
    /\ opc = "start" => output # None
    /\ LET path == IF opc = "prepared" THEN out_path ELSE output[1]
       IN /\ out_path' = path
          /\ IF CanOpen(path)
             THEN /\ mode' = IF append THEN "ab" ELSE "wb"
                  /\ opens' = opens + 1
                  /\ dest' = [exists |-> TRUE,
                              content |-> IF append THEN dest.content ELSE <<>>]
                  /\ opc' = "opened"
             ELSE /\ opc' = "failed"
                  /\ UNCHANGED <<mode, opens, dest>>
    /\ UNCHANGED <<output, append, made_dirs, dest0>>

NextOutput ==
    \/ PrepareOutputPath
          /\ UNCHANGED <<dvars, cvars, pvars, mpc, args, warnings, status, exit_at>>
    \/ SafeOpenForWrite
          /\ UNCHANGED <<dvars, cvars, pvars, mpc, args, warnings, status, exit_at>>

SpecOutput == InitOutput /\ [][NextOutput]_vars

-----------------------------------------------------------------------------
(* Observations used by the properties of discover_files *)

YieldIdx == DOMAIN yielded

\* the yields and frames produced by enumerating a directory (not a root)
ChildYields == {i \in YieldIdx : ~yielded[i].root}
ChildFrames == {f \in frames : ~f.root}

\* directory levels of a path below its root: direct children are level 0
Level(path, base) == Len(path) - Len(base) - 1

\* a component of a path is hidden
HiddenAt(path, k) == Len(path[k]) > 0 /\ path[k][1] = Dot

\* the roots taken so far that are not regular files
NoFileRoot == \A i \in DOMAIN inputs : ~root_is_file(inputs[i])

-----------------------------------------------------------------------------
(* C2: with follow_symlinks and directory roots only, symlink cycles or   *)
(* not, one call yields each identity at most once: no two yields carry   *)
(* the same identity key, and where the platform reports inodes no two    *)
(* yields name the same inode; for every enumeration order.               *)
C2_EachFileAtMostOnce ==
    (follow_symlinks /\ NoFileRoot) =>
        \A i, j \in YieldIdx :
            i # j => /\ yielded[i].key # yielded[j].key
                     /\ ino_valid => yielded[i].node # yielded[j].node

\* a finished call over /r with /r/x/l -> /r (a cycle back to the root),
\* the link descended into and /r/a yielded
C2_Witness ==
    /\ follow_symlinks /\ ino_valid /\ pc = "done"
    /\ inputs = <<<<n_r>>>>
    /\ symlinks["l"] = LinkTo(<<n_r>>)
    /\ \E f \in frames : f.path = <<n_r, n_x, n_l>>
    /\ \E i \in YieldIdx : yielded[i].node = 10

(* C3: discover_files finishes for every filesystem and list of roots of  *)
(* the model (cycles, unreadable directory, missing root): the generator  *)
(* eventually returns, and the frames pushed never outnumber the roots    *)
(* taken plus the identity keys recorded.                                  *)
C3_Terminates ==
    /\ [](Cardinality(frames) <= Len(inputs) + Cardinality(seen_keys))
    /\ <>(pc = "done")

\* a finished call that went through the two-link cycle /r/x/l -> /s/y,
\* /s/y/k -> /r/x with an unreadable directory or a missing root elsewhere
C3_Witness ==
    /\ pc = "done" /\ follow_symlinks
    /\ symlinks["l"] = LinkTo(<<n_s, n_y>>)
    /\ symlinks["k"] = LinkTo(<<n_r, n_x>>)
    /\ inputs = << <<n_gone>>, <<n_r>> >>
    /\ \E f \in frames : f.path = <<n_r, n_x, n_l>>
    /\ stack = <<>>

(* C4 as stated: no yield and no push, a root's included, carries a key   *)
(* that was already in the seen-set.                                       *)
C4_Original ==
    /\ \A i \in YieldIdx : ~yielded[i].dup
    /\ \A f \in frames : ~f.dup

(* C4 amended: no child entry enumerated from a directory is yielded or   *)
(* pushed with a key that was already in the seen-set, and its key is in  *)
(* the seen-set afterwards; roots bypass the seen-set.                    *)
C4_ChildrenNeverRepeat ==
    /\ \A i \in ChildYields : ~yielded[i].dup /\ yielded[i].key \in seen_keys
    /\ \A f \in ChildFrames : ~f.dup /\ f.key \in seen_keys
    /\ \A i, j \in ChildYields : i # j => yielded[i].key # yielded[j].key

\* /r/a yielded from /r, then yielded again as a file root; the hard link
\* /r/x/b with the same key was not yielded
C4_Witness ==
    /\ pc = "done" /\ ino_valid
    /\ inputs = << <<n_r>>, <<n_r, n_a>> >>
    /\ Len(yielded) = 2
    /\ yielded[2].root /\ yielded[2].dup
    /\ ~yielded[1].root /\ yielded[1].node = 10
    /\ \E f \in frames : f.path = <<n_r, n_x>>

(* C5: with max_depth = d every path yielded from a directory root lies   *)
(* at most d levels below it, every frame has depth at most d, and a      *)
(* frame's depth is its path's distance from the root.                    *)
C5_DepthBound ==
    max_depth # None =>
        /\ \A i \in ChildYields :
               Level(yielded[i].path, yielded[i].base) <= max_depth[1]
        /\ \A f \in frames :
               /\ f.depth <= max_depth[1]
               /\ f.depth = Len(f.path) - Len(f.base)
        /\ cur.depth <= max_depth[1]

\* max_depth = 1 over /s: /s/y/f yielded at level 1 while the directory
\* /s/y/k -> /r/x, level 2, was recorded but not pushed
C5_Witness ==
    /\ max_depth = Some(1) /\ pc = "done" /\ follow_symlinks
    /\ inputs = <<<<n_s>>>>
    /\ symlinks["k"] = LinkTo(<<n_r, n_x>>)
    /\ \E i \in YieldIdx : yielded[i].path = <<n_s, n_y, n_f>>
    /\ <<"inode", 3, 1>> \in seen_keys
    /\ ~\E f \in frames : f.path = <<n_s, n_y, n_k>>

\* the files that have a path of at most d levels below the root through
\* readable directories, no name on it (the root's included) hidden
RECURSIVE Within(_, _, _)
Within(d, node, depth) ==
    IF node \in unreadable THEN {}
    ELSE UNION {
        IF is_hidden(<<e.name>>) THEN {}
        ELSE IF Kind(e.ino) = "file" THEN {e.ino}
        ELSE IF depth + 1 <= d THEN Within(d, e.ino, depth + 1)
        ELSE {} : e \in HardEntries(node)}

(* C6 as stated, on a platform that reports inodes: when the call has     *)
(* finished with max_depth = d, every file with a path of at most d       *)
(* levels below a directory root through non-hidden readable directories  *)
(* has been yielded.                                                       *)
C6_Original ==
    (pc = "done" /\ ino_valid /\ max_depth # None) =>
        \A r \in DOMAIN inputs :
            (Kind(NodeAt(inputs[r])) = "dir" /\ ~is_hidden(inputs[r])) =>
                \A n \in Within(max_depth[1], NodeAt(inputs[r]), 0) :
                    \E i \in YieldIdx : yielded[i].node = n

(* C7 as stated: with include_hidden = false no yielded path, other than  *)
(* a regular-file root, has a hidden component anywhere.                  *)
C7_Original ==
    ~include_hidden =>
        \A i \in ChildYields :
            \A k \in 1..Len(yielded[i].path) : ~HiddenAt(yielded[i].path, k)

(* C7 amended: with include_hidden = false no yielded path, other than a  *)
(* regular-file root, has a hidden component at or below the root's own   *)
(* name; the components above the root are not examined.                  *)
C7_NoHiddenBelowRoot ==
    ~include_hidden =>
        \A i \in ChildYields :
            \A k \in Len(yielded[i].base)..Len(yielded[i].path) :
                k >= 1 => ~HiddenAt(yielded[i].path, k)

\* /.h/t given as a root with include_hidden = false: /.h/t/c is yielded,
\* and from /r the hidden /r/.e is not
C7_Witness ==
    /\ ~include_hidden /\ pc = "done"
    /\ inputs = << <<n_h, n_t>>, <<n_r>> >>
    /\ \E i \in YieldIdx : yielded[i].path = <<n_h, n_t, n_c>>
    /\ \E i \in YieldIdx : yielded[i].path = <<n_r, n_a>>
    /\ ~\E i \in YieldIdx : yielded[i].path = <<n_r, n_e>>

-----------------------------------------------------------------------------
(* Observations used by the properties of looks_binary_bytes *)

NullInPrefix == \E i \in 1..Min(BinaryPrefix, Len(data)) : data[i] = 0
PrefixAllowed == \A i \in 1..Min(BinaryPrefix, Len(data)) : data[i] \in text_chars

(* C9: looks_binary_bytes is true whenever a null byte is among the first *)
(* 1024 bytes, false for the empty sequence and whenever the first 1024   *)
(* bytes are all allowed bytes, also when a null byte follows them.       *)
C9_NullByteRule ==
    cstage = "classified" =>
        /\ NullInPrefix => binary
        /\ data = <<>> => ~binary
        /\ PrefixAllowed => ~binary

\* 1023 letters and then one null byte, the 1024th: classified binary
C9_Witness ==
    /\ cstage = "classified"
    /\ Len(data) = 1024
    /\ data[1024] = 0
    /\ \A i \in 1..1023 : data[i] = 65
    /\ binary

(* C10 as stated: a text written in UTF-8, UTF-16LE or Latin-1 is not     *)
(* skipped as binary, and try_decode returns the text that was written.   *)
C10_Original ==
    /\ cstage # "skipped"
    /\ cstage = "decoded" => decoded.text = text

-----------------------------------------------------------------------------
(* Observations used by the properties of process_files_sequential *)

Handled == DOMAIN handled
FileOf(h) == file_list[handled[h].file]

\* the file's content as the output should carry it once: the sample, then
\* the chunks of what follows the sample
ContentOnce(content) ==
    LET sample == Prefix(content, SampleSize)
        rest == SubSeq(content, Len(sample) + 1, Len(content))
    IN Reencode(sample) \o ReencodeAll(ReadAll(rest, ChunkSize))

(* C1 as stated: a file handled as text appends its framing header and    *)
(* then its content once.                                                  *)
C1_Original ==
    \A h \in Handled :
        handled[h].counter = "processed" =>
            handled[h].bytes = Header(FileOf(h).path) \o ContentOnce(FileOf(h).content)

(* C8: with a maximum of M bytes a file whose stat size exceeds M is not  *)
(* opened, adds one to skipped_large and leaves processed (and the sink)  *)
(* unchanged; a file of at most M bytes is not counted as too large.      *)
C8_SizeSkip ==
    max_size_bytes # None =>
        \A h \in Handled :
            LET size == StatSize(FileOf(h))
                M == max_size_bytes[1]
            IN /\ size > M =>
                    /\ handled[h].opens = 0
                    /\ handled[h].bytes = <<>>
                    /\ handled[h].after.skipped_large = handled[h].before.skipped_large + 1
                    /\ handled[h].after.processed = handled[h].before.processed
               /\ size <= M =>
                    handled[h].after.skipped_large = handled[h].before.skipped_large

\* M = 2: "hi" (exactly M bytes) was processed, the three-byte file (M + 1)
\* was skipped as too large without being opened
C8_Witness ==
    /\ ppc = "done"
    /\ max_size_bytes = Some(2)
    /\ Len(file_list) = 2
    /\ file_list[1].content = <<104, 105>> /\ file_list[1].fault = "none"
    /\ file_list[2].content = <<0, 1, 2>> /\ file_list[2].fault = "none"
    /\ handled[1].counter = "processed"
    /\ handled[2].counter = "skipped_large" /\ handled[2].opens = 0
    /\ summary.skipped_large = 1 /\ summary.processed = 1

\* the failure injected into a file is one the handling of it runs into: the
\* file is not skipped as too large, for a failure after the binary check
\* not skipped as binary either, and the read or write that is to fail is
\* one the handling gets to
FailureOccurs(f) ==
    /\ ~TooLarge(StatSize(f))
    /\ \/ f.fault = "sample"
       \/ /\ ~looks_binary_bytes(Prefix(f.content, SampleSize))
          /\ \/ f.fault = "reopen"
             \/ f.fault = "stream" /\ f.at <= NumReads(f.content)
             \/ /\ f.fault = "write"
                /\ f.at <= Len(Writes(f.path, f.content, Prefix(f.content, SampleSize)))

(* C11: a failure while handling one file (sample read, reopen, read      *)
(* while streaming, sink write) adds one to errors and ends only that     *)
(* file's handling: the files are handled one by one in list order, and   *)
(* when the function returns every file of the list has been handled.     *)
C11_ErrorIsolation ==
    /\ \A h \in Handled :
          /\ handled[h].file = h
          /\ FailureOccurs(FileOf(h)) =>
                /\ handled[h].counter = "errors"
                /\ handled[h].after.errors = handled[h].before.errors + 1
    /\ ppc = "loop" => Len(handled) = idx - 1
    /\ ppc = "done" => Len(handled) = Len(file_list)

\* the second read of the first file fails while it is streamed, after the
\* sample and the first chunk were written; the second file is handled
\* after it and processed
C11_Witness ==
    /\ ppc = "done"
    /\ Len(file_list) = 2
    /\ file_list[1].fault = "stream" /\ file_list[1].at = 2
    /\ file_list[1].content = <<104, 105>>
    /\ file_list[2].fault = "none" /\ file_list[2].content = <<104, 105>>
    /\ handled[1].counter = "errors"
    /\ handled[1].bytes = Header(file_list[1].path) \o <<104, 105, 104, 105>>
    /\ handled[2].counter = "processed" /\ handled[2].file = 2
    /\ summary.errors = 1 /\ summary.processed = 1

(* C12 as stated, for the files of process_files_sequential: a file whose *)
(* stat fails or whose sample cannot be read is skipped (nothing of it    *)
(* reaches the sink) and adds one to errors.                              *)
C12_Original ==
    \A h \in Handled :
        (FileOf(h).fault = "stat" \/
         (FileOf(h).fault = "sample" /\ FailureOccurs(FileOf(h)))) =>
            /\ handled[h].bytes = <<>>
            /\ handled[h].after.errors = handled[h].before.errors + 1

-----------------------------------------------------------------------------
\* the children of current_dir the for loop has visited already
Visited == Scandir(cur.node) \ entries

(* C13 as stated: with include_hidden = false the identity key of every   *)
(* child visited so far, the filtered hidden ones included, is in the     *)
(* seen-set.                                                               *)
C13_Original ==
    (~include_hidden /\ pc = "entries") =>
        \A e \in Visited : EntryKey(cur.node, e, follow_symlinks) \in seen_keys

\* how often a path occurs among the roots taken, and among the root yields
Occurrences(p) == Cardinality({r \in DOMAIN inputs : inputs[r] = p})
RootYields(p) == Cardinality({i \in YieldIdx : yielded[i].root /\ yielded[i].path = p})

(* C14: a root that is a regular file is yielded once for each of its     *)
(* occurrences among the roots, hidden name or not, already yielded or    *)
(* not, and taking a root never changes the seen-set.                     *)
C14_FileRootsUnfiltered ==
    /\ [](\A p \in RootCands :
            Kind(NodeAt(p)) = "file" => RootYields(p) = Occurrences(p))
    /\ [][Len(inputs') > Len(inputs) => seen_keys' = seen_keys]_vars

\* include_hidden = false: /r/a was yielded from the root /r, then the
\* hidden hard link /r/.e to the same file, given as a root, was yielded
\* although its key was in the seen-set
C14_Witness ==
    /\ ~include_hidden /\ ino_valid
    /\ inputs = << <<n_r>>, <<n_r, n_e>> >>
    /\ Len(yielded) = 2
    /\ yielded[1].path = <<n_r, n_a>>
    /\ yielded[2].path = <<n_r, n_e>> /\ yielded[2].root /\ yielded[2].dup
    /\ yielded[2].key \in seen_keys

\* the framing headers in the sink: the places where "\n\n----\n" starts
HeaderMark == <<10, 10, 45, 45, 45, 45, 10>>
HeadersIn(bytes) ==
    Cardinality({i \in 1..(Len(bytes) - Len(HeaderMark) + 1) :
                    SubSeq(bytes, i, i + Len(HeaderMark) - 1) = HeaderMark})

(* C15 as stated: when the function has returned the sink holds as many   *)
(* framing headers as files were processed, and a file counted as         *)
(* skipped-binary, skipped-large or errors wrote nothing to the sink.     *)
C15_Original ==
    /\ ppc = "done" => HeadersIn(out) = summary.processed
    /\ \A h \in Handled :
          handled[h].counter # "processed" => handled[h].bytes = <<>>

-----------------------------------------------------------------------------
\* printable ASCII plus tab, newline, carriage return, form feed, backspace
\* and escape
PrintableAndControls == (32..126) \cup {8, 9, 10, 12, 13, 27}

\* the bytes from the space upwards (DEL and the high bytes 128..255
\* included) plus bell, backspace, tab, newline, form feed, carriage return
\* and escape
SpaceUpwardsAndControls == (32..255) \cup {7, 8, 9, 10, 12, 13, 27}

\* the bytes of the 1024-byte prefix of data that are outside a set
Outside(allowed) ==
    Cardinality({i \in 1..Min(BinaryPrefix, Len(data)) : data[i] \notin allowed})

\* more than 0.30 of the prefix is outside the set: n / len > 30 / 100
OverThreshold(allowed) ==
    Outside(allowed) * 100 > 30 * Min(BinaryPrefix, Len(data))

(* C16 as stated: without a null byte in the first 1024 bytes the result  *)
(* is true exactly when more than 0.30 of those bytes are outside         *)
(* printable ASCII plus tab, newline, carriage return, form feed,         *)
(* backspace and escape.                                                   *)
C16_Original ==
    (cstage = "classified" /\ ~NullInPrefix) =>
        (binary <=> OverThreshold(PrintableAndControls))

(* C16 amended: without a null byte in the first 1024 bytes the result is *)
(* true exactly when more than 0.30 of those bytes are outside the bytes  *)
(* 0x20..0xFF plus bell, backspace, tab, newline, form feed, carriage     *)
(* return and escape; exactly 0.30 is text.                                *)
C16_RatioRule ==
    (cstage = "classified" /\ ~NullInPrefix) =>
        (binary <=> OverThreshold(SpaceUpwardsAndControls))

\* 300 bytes 0x01 and 700 bytes 0xC8: exactly 0.30 of the prefix is
\* outside the set (the high bytes are inside), classified text
C16_Witness ==
    /\ cstage = "classified"
    /\ data = Run(300, 1) \o Run(700, 200)
    /\ Outside(SpaceUpwardsAndControls) * 100 = 30 * Len(data)
    /\ ~binary

-----------------------------------------------------------------------------
\* the four outcome counters of Summary and their sum
Outcomes == {"processed", "skipped_binary", "skipped_large", "errors"}
OutcomeSum(rec) == rec.processed + rec.skipped_binary + rec.skipped_large + rec.errors

(* C18: every file handled so far added one to exactly one of processed,  *)
(* skipped_binary, skipped_large and errors, so the four counters sum to  *)
(* the number of files handled and, once the function has returned, to    *)
(* total_files and to the length of the file list; no counter of the      *)
(* summary ever decreases.                                                 *)
C18_OneCounterPerFile ==
    /\ [](/\ \A h \in Handled :
              \E c \in Outcomes :
                  /\ handled[h].after[c] = handled[h].before[c] + 1
                  /\ \A d \in Outcomes \ {c} :
                        handled[h].after[d] = handled[h].before[d]
          /\ OutcomeSum(summary) = Len(handled)
          /\ ppc = "done" =>
                /\ OutcomeSum(summary) = summary.total_files
                /\ summary.total_files = Len(file_list))
    /\ [][\A c \in Outcomes \cup {"total_files"} : summary'[c] >= summary[c]]_vars

\* a binary file and a file whose sample cannot be read: one count each,
\* nothing processed
C18_Witness ==
    /\ ppc = "done"
    /\ Len(file_list) = 2
    /\ file_list[1].content = <<0, 1, 2>> /\ file_list[1].fault = "none"
    /\ file_list[2].fault = "sample"
    /\ max_size = 0
    /\ summary = [total_files |-> 2, processed |-> 0, skipped_binary |-> 1,
                  skipped_large |-> 0, errors |-> 1]

(* C19 as stated: every file handled advanced the progress reporter by    *)
(* exactly one, the total advanced never exceeds the number of files (the *)
(* total the reporter was created with) and equals it once the function   *)
(* has returned.                                                           *)
C19_Original ==
    /\ \A h \in Handled : handled[h].advance = 1
    /\ ui <= Len(file_list)
    /\ ppc = "done" => ui = Len(file_list)

-----------------------------------------------------------------------------
\* none of the inputs exists: discovery can yield nothing and the file list
\* can only be empty
NothingToCollect == \A i \in DOMAIN args.input : ~root_exists(args.input[i])

(* C17 as stated, for a run whose inputs hold nothing to collect: main    *)
(* ends with status 0, and the destination has not been opened and is as  *)
(* it was before the run.                                                  *)
C17_Original ==
    (mpc = "exit" /\ NothingToCollect) =>
        /\ status = Some(0)
        /\ opens = 0
        /\ dest = dest0

====
